---------------------------- MODULE Spec2Model ----------------------------
(***************************************************************************)
(* UniSchedule: the timetable parser (scripts/parse-timetable.mjs) and the *)
(* calendar encoder of the app (App.tsx).                                  *)
(*                                                                         *)
(* Seven specifications share the module's variables, one per part of the  *)
(* program; each leaves the other parts' variables at their idle values:   *)
(*   SpecEscape  escapeIcsText applied to bounded strings                  *)
(*   SpecMerge   addEvent / mergeContiguousEvents on bounded buckets       *)
(*   SpecGrid    the table walk (row-span ledger) and group assembly       *)
(*   SpecIcs     the date pickers, handleDownload and buildIcs             *)
(*   SpecEncode  repeated buildIcs calls on the groups of one timetable    *)
(*   SpecDetail  parseDetailedTable applied to bounded detail tables       *)
(*   SpecUi      the year/mode/specialization/group filters and their      *)
(*               correcting effects (weakly fair: React runs them)         *)
(*                                                                         *)
(* Text is a sequence of one-character strings.  A clock time "HH:MM" is   *)
(* the record [h, m] of its two numeric fields.  A Date is a local wall    *)
(* clock instant [dn, sec]: the day number (days since 1970-01-01) and the *)
(* second of that day; the local zone is taken to have a fixed offset.     *)
(***************************************************************************)
EXTENDS Integers, Sequences, FiniteSets, TLC

VARIABLES
    escIn,        \* escapeIcsText: the value passed in
    escOut,       \* escapeIcsText: the value returned
    escPhase,     \* "input" | "escaped"
    events,       \* the bucket addEvent pushes to
    merged,       \* mergeContiguousEvents(events)
    remerged,     \* mergeContiguousEvents(merged)
    mergePhase,   \* "collect" | "merged" | "remerged"
    gPhase,       \* parse run: "args" | "tables" | "rows" | "assembled" | "written" | "usage" | "crashed"
    profile,      \* the family of documents the run's input is drawn from
    tablesDone,   \* tables whose callback has been entered
    cellsUsed,    \* physical day cells read so far in the document
    rowsUsed,     \* body rows walked so far in the document
    rowsSeen,     \* body rows of the current table walked so far
    mainGroup,    \* the current table's main-group label
    days,         \* the current table's day headers
    activeSpans,  \* the current table's row-span ledger, one counter per day column
    sharedEvents, \* the current table's shared sessions
    subgroupEvents, \* the current table's Map subgroup -> sessions, in insertion order
    groups,       \* the groups pushed so far
    output,       \* what writeFileSync wrote, and the count printed
    exitCode,     \* -1 while running, else the process exit status
    startDate,    \* App state: the range start (a Date)
    endDate,      \* App state: the range end (a Date)
    selectedGroup, \* App: groups.find(id === selectedId), or NoGroup
    platform,     \* Platform.OS
    alertShown,   \* the title of the alert the last handleDownload raised, or ""
    download,     \* what the last handleDownload handed to the browser, or NoDownload
    dateCalls,    \* the date computations the last handleDownload made, in order
    called,       \* whether the last UI event was handleDownload
    timetable,    \* the groups array the encoder's callers pass groups from
    encodes,      \* the buildIcs calls made so far: arguments and returned lines
    detRows,      \* parseDetailedTable: the cell texts of the table's rows
    detOut,       \* parseDetailedTable: what the call returned, or that it threw
    detPhase,     \* "input" | "parsed"
    uiGroups,     \* App: groups, the timetable's groups sorted by label
    yearKey,      \* App state: the selected year and semester, "Y.S" as <<Y, ".", S>>
    mode,         \* App state: the selected mode
    specialization, \* App state: the selected specialization
    selectedId    \* App state: the id of the selected group

escVars   == <<escIn, escOut, escPhase>>
detVars   == <<detRows, detOut, detPhase>>
uiVars    == <<uiGroups, yearKey, mode, specialization, selectedId>>
sideVars  == <<escVars, detVars, uiVars>>
mergeVars == <<events, merged, remerged, mergePhase>>
tableVars == <<rowsSeen, mainGroup, days, activeSpans, sharedEvents, subgroupEvents>>
docVars   == <<tablesDone, cellsUsed, rowsUsed>>
gridVars  == <<gPhase, profile, docVars, tableVars, groups, output, exitCode>>
callVars  == <<alertShown, download, dateCalls, called>>
encVars   == <<timetable, encodes>>
icsVars   == <<startDate, endDate, selectedGroup, platform, callVars, encVars>>
vars      == <<sideVars, mergeVars, gridVars, icsVars>>

EscIdle   == escIn = <<>> /\ escOut = <<>> /\ escPhase = "idle"
DetIdle   == detRows = <<>> /\ detOut = [threw |-> FALSE, entries |-> <<>>] /\ detPhase = "idle"
MergeIdle == events = <<>> /\ merged = <<>> /\ remerged = <<>> /\ mergePhase = "idle"

UiIdle    ==
    /\ uiGroups = <<>> /\ yearKey = <<>> /\ mode = "" /\ specialization = ""
    /\ selectedId = ""
SideIdle  == EscIdle /\ DetIdle /\ UiIdle

NoOutput == [written |-> FALSE]

GridIdle ==
    /\ gPhase = "idle" /\ profile = "none" /\ tablesDone = 0 /\ cellsUsed = 0 /\ rowsUsed = 0
    /\ rowsSeen = 0 /\ mainGroup = "" /\ days = <<>> /\ activeSpans = <<>>
    /\ sharedEvents = <<>> /\ subgroupEvents = <<>> /\ groups = <<>>
    /\ output = NoOutput /\ exitCode = -1

NoGroup    == [id |-> "", events |-> <<>>, found |-> FALSE]
NoDownload == [happened |-> FALSE]
NoDate     == [dn |-> 0, sec |-> 0]

IcsIdle ==
    /\ startDate = NoDate /\ endDate = NoDate /\ selectedGroup = NoGroup
    /\ platform = "none" /\ alertShown = "" /\ download = NoDownload
    /\ dateCalls = <<>> /\ called = FALSE
    /\ timetable = <<>> /\ encodes = <<>>

(***************************************************************************)
(* Bounds                                                                  *)
(***************************************************************************)
MaxLen    == 4     \* longest text passed to escapeIcsText
MaxEvents == 3     \* most sessions pushed to one bucket
MaxTables == 2     \* most schedule tables in one document
MaxRows   == 3     \* most body rows in one document
MaxCells  == 3     \* most physical day cells in one document
MaxRowSpan == 2    \* largest rowspan attribute on a day cell
MaxDayOffset == 6  \* the pickers offer this many days after each anchor date
MaxCalls  == 3     \* most buildIcs calls in one session of the app
MaxDetailRows == 4 \* most rows of a nested detail table
ScanFuel  == 10    \* iterations after which the model gives up a first-occurrence scan

(***************************************************************************)
(* Generic helpers                                                         *)
(***************************************************************************)
SeqsUpTo(S, n) == UNION {[1..k -> S] : k \in 0..n}

RECURSIVE SumSeq(_)
SumSeq(s) == IF s = <<>> THEN 0 ELSE Head(s) + SumSeq(Tail(s))

(***************************************************************************)
(* escapeIcsText (App.tsx)                                                 *)
(***************************************************************************)
BS == "\\"
NL == "\n"
Alphabet == {BS, ";", ",", NL, "a", "n"}

\* String.prototype.replace with a global one-character pattern.
RECURSIVE ReplaceAll(_, _, _)
ReplaceAll(s, c, r) ==
    IF s = <<>> THEN <<>>
    ELSE (IF Head(s) = c THEN r ELSE <<Head(s)>>) \o ReplaceAll(Tail(s), c, r)

\* A plausible slip: the backslash rule applied last instead of first.
EscapeBackslashLast(value) ==
    ReplaceAll(
      ReplaceAll(
        ReplaceAll(
          ReplaceAll(value, ";", <<BS, ";">>),
          ",", <<BS, ",">>),
        NL, <<BS, "n">>),
      BS, <<BS, BS>>)

escapeIcsText(value) ==
    ReplaceAll(
      ReplaceAll(
        ReplaceAll(
          ReplaceAll(value, BS, <<BS, BS>>),
          ";", <<BS, ";">>),
        ",", <<BS, ",">>),
      NL, <<BS, "n">>)

EscInit ==
    /\ escIn \in SeqsUpTo(Alphabet, MaxLen)
    /\ escOut = <<>>
    /\ escPhase = "input"

EscapeText ==
    /\ escPhase = "input"
    /\ escOut' = escapeIcsText(escIn)
    /\ escPhase' = "escaped"
    /\ UNCHANGED <<escIn, detVars, uiVars, mergeVars, gridVars, icsVars>>

(***************************************************************************)
(* addEvent, toMinutes, mergeContiguousEvents (parse-timetable.mjs)        *)
(***************************************************************************)
Time(h, m) == [h |-> h, m |-> m]

toMinutes(time) == time.h * 60 + time.m

dayOrder == <<"Monday", "Tuesday", "Wednesday", "Thursday", "Friday", "Saturday", "Sunday">>

\* dayIndex.get(day) ?? 0
dayIndex(day) ==
    IF \E i \in 1..Len(dayOrder) : dayOrder[i] = day
    THEN (CHOOSE i \in 1..Len(dayOrder) : dayOrder[i] = day) - 1
    ELSE 0

\* A plausible slip: the start time left out of the comparator.
compareEventsDayOnly(a, b) == dayIndex(a.day) - dayIndex(b.day)

\* The comparator handed to sort: negative, zero or positive.
compareEvents(a, b) ==
    LET dayDiff == dayIndex(a.day) - dayIndex(b.day)
    IN  IF dayDiff # 0 THEN dayDiff ELSE toMinutes(a.start) - toMinutes(b.start)

\* Array.prototype.sort is stable: an element goes after every element that
\* does not compare greater than it.
RECURSIVE InsertSorted(_, _)

\* A plausible slip: an unstable sort, a session going before those it ties with.
RECURSIVE InsertBeforeTies(_, _)
InsertBeforeTies(s, e) ==
    IF s = <<>> THEN <<e>>
    ELSE IF compareEvents(Head(s), e) < 0
         THEN <<Head(s)>> \o InsertBeforeTies(Tail(s), e)
         ELSE <<e>> \o s

InsertSorted(s, e) ==
    IF s = <<>> THEN <<e>>
    ELSE IF compareEvents(Head(s), e) <= 0
         THEN <<Head(s)>> \o InsertSorted(Tail(s), e)
         ELSE <<e>> \o s

RECURSIVE sortEvents(_)
sortEvents(s) ==
    IF s = <<>> THEN <<>>
    ELSE InsertSorted(sortEvents(SubSeq(s, 1, Len(s) - 1)), s[Len(s)])

\* A plausible slip: the location left out of the comparison.
sameDetailsNoLocation(last, event) ==
    /\ last.day = event.day
    /\ last.title = event.title
    /\ last.description = event.description

sameDetails(last, event) ==
    /\ last.day = event.day
    /\ last.title = event.title
    /\ last.location = event.location
    /\ last.description = event.description

\* A plausible slip: the candidate dropped without its minutes being added.
MergeStepDropsMinutes(acc, event) ==
    IF acc = <<>> THEN <<event>>
    ELSE LET last == acc[Len(acc)]
             lastEnd == toMinutes(last.start) + last.durationMinutes
             currentStart == toMinutes(event.start)
         IN  IF sameDetails(last, event) /\ lastEnd = currentStart
             THEN acc
             ELSE Append(acc, event)

\* A plausible slip: the end of the last session taken from its first row only.
MergeStepStaleEnd(acc, event) ==
    IF acc = <<>> THEN <<event>>
    ELSE LET last == acc[Len(acc)]
             lastEnd == toMinutes(last.start) + 60
         IN  IF sameDetails(last, event) /\ lastEnd = toMinutes(event.start)
             THEN [acc EXCEPT ![Len(acc)].durationMinutes = @ + event.durationMinutes]
             ELSE Append(acc, event)

\* The body of sorted.forEach: one candidate against the last accepted session.
MergeStep(acc, event) ==
    IF acc = <<>> THEN <<event>>
    ELSE LET last == acc[Len(acc)]
             lastEnd == toMinutes(last.start) + last.durationMinutes
             currentStart == toMinutes(event.start)
         IN  IF sameDetails(last, event) /\ lastEnd = currentStart
             THEN [acc EXCEPT ![Len(acc)].durationMinutes = @ + event.durationMinutes]
             ELSE Append(acc, event)

RECURSIVE MergeWalk(_, _)
MergeWalk(acc, rest) ==
    IF rest = <<>> THEN acc ELSE MergeWalk(MergeStep(acc, Head(rest)), Tail(rest))

mergeContiguousEvents(evs) == MergeWalk(<<>>, sortEvents(evs))

\* The sessions of a bucket, each carrying its position in the bucket.
Tagged(evs) ==
    [i \in DOMAIN evs |->
        [day |-> evs[i].day, start |-> evs[i].start, durationMinutes |-> evs[i].durationMinutes,
         title |-> evs[i].title, location |-> evs[i].location,
         description |-> evs[i].description, src |-> i]]

\* A plausible slip: merged.push(event), the session object itself.
PushedObjectItself(i) == i

\* merged.push({ ...event }): the object pushed for the i-th session passed in
\* is a new one (0), not that session's object (i).
PushedObject(i) == 0

\* The array passed to mergeContiguousEvents as the call leaves it: the sort
\* works on the copy [...events]; last.durationMinutes += ... writes to the
\* object that was pushed for the first session of a run.
InputAfterMerge(evs) ==
    LET out == MergeWalk(<<>>, sortEvents(Tagged(evs)))
    IN  [i \in DOMAIN evs |->
           IF PushedObject(i) = i /\ \E k \in DOMAIN out : out[k].src = i
           THEN [evs[i] EXCEPT !.durationMinutes =
                    out[CHOOSE k \in DOMAIN out : out[k].src = i].durationMinutes]
           ELSE evs[i]]

\* The sessions the bounded buckets are filled from: hourly slots that are
\* contiguous, gapped and overlapping; Monday sessions whose details differ in
\* exactly one of title, location and description, Tuesday sessions that
\* differ from the first of them in the day only, and one session on a day
\* the week does not have.
MergeSlots == {<<Time(9, 0), 60>>, <<Time(10, 0), 60>>, <<Time(11, 0), 60>>, <<Time(9, 0), 120>>}
MergeDetails == {<<"A", "L", "D">>, <<"B", "L", "D">>, <<"A", "M", "D">>, <<"A", "L", "E">>}

Session(d, sl, p) ==
    [day |-> d, start |-> sl[1], durationMinutes |-> sl[2],
     title |-> p[1], location |-> p[2], description |-> p[3]]

MergeEvents ==
    {Session("Monday", sl, p) : sl \in MergeSlots, p \in MergeDetails}
      \cup {Session("Tuesday", sl, <<"A", "L", "D">>) : sl \in MergeSlots}
      \cup {Session("Funday", <<Time(9, 0), 60>>, <<"A", "L", "D">>)}

MergeInit ==
    /\ events = <<>>
    /\ merged = <<>>
    /\ remerged = <<>>
    /\ mergePhase = "collect"

\* addEvent(bucket, event): a copy of the event is pushed.
addEvent(event) ==
    /\ mergePhase = "collect"
    /\ Len(events) < MaxEvents
    /\ events' = Append(events, event)
    /\ UNCHANGED <<merged, remerged, mergePhase, sideVars, gridVars, icsVars>>

MergeCall ==
    /\ mergePhase = "collect"
    /\ merged' = mergeContiguousEvents(events)
    /\ events' = InputAfterMerge(events)
    /\ mergePhase' = "merged"
    /\ UNCHANGED <<remerged, sideVars, gridVars, icsVars>>

MergeAgain ==
    /\ mergePhase = "merged"
    /\ remerged' = mergeContiguousEvents(merged)
    /\ merged' = InputAfterMerge(merged)
    /\ mergePhase' = "remerged"
    /\ UNCHANGED <<events, sideVars, gridVars, icsVars>>

(***************************************************************************)
(* The parse run (parse-timetable.mjs): cell interpretation, the table     *)
(* walk and group assembly.  A string built by concatenation is the        *)
(* sequence of its non-empty pieces.                                       *)
(***************************************************************************)
NoAttr   == -1           \* the cell carries no rowspan attribute
NoDetail == <<>>         \* the rows of a cell that holds no table.detailed
NoHeader == "none"       \* the table has no thead tr th[colspan]
Crash    == [threw |-> TRUE, entries |-> <<>>]

Txt(str) == IF str = "" THEN <<>> ELSE <<str>>

\* Number(cell.getAttribute('rowspan') || '1')
RowSpanOf(cell) == IF cell.rowspan = NoAttr THEN 1 ELSE cell.rowspan

\* A plausible slip: the placeholders kept as text.
toTextLinesKeepPlaceholders(cell) == SelectSeq(cell.lines, LAMBDA line : line # "")

\* toTextLines: the cell's lines (split at <br>, tags stripped, trimmed)
\* without the blank ones and the placeholders.
toTextLines(cell) == SelectSeq(cell.lines, LAMBDA line : line # "" /\ line # "-x-" /\ line # "---")

NoEntry == [none |-> TRUE]

OrDefault(col, i, default) == IF i <= Len(col) /\ col[i] # "" THEN col[i] ELSE default

parseMainCell(cell) ==
    LET lines == toTextLines(cell)
    IN  IF Len(lines) = 0 THEN NoEntry
        ELSE [title     |-> OrDefault(lines, 1, "Session"),
              lecturers |-> OrDefault(lines, 2, ""),
              location  |-> OrDefault(lines, 3, "")]

\* columns[k] after rows.forEach: the k-th cell text of every row that has one.
RECURSIVE ColumnTexts(_, _)
ColumnTexts(rows, k) ==
    IF rows = <<>> THEN <<>>
    ELSE (IF k <= Len(Head(rows)) THEN <<Head(rows)[k]>> ELSE <<>>) \o ColumnTexts(Tail(rows), k)

\* parseDetailedTable: the entries, or Crash when a row has a cell beyond the
\* first row's column count (columns[index] is undefined there).
parseDetailedTable(rows) ==
    IF Len(rows) = 0 THEN [threw |-> FALSE, entries |-> <<>>]
    ELSE LET colCount == Len(rows[1])
         IN  IF \E r \in DOMAIN rows : Len(rows[r]) > colCount THEN Crash
             ELSE [threw |-> FALSE, entries |-> [k \in 1..colCount |->
                     LET col == ColumnTexts(rows, k)
                     IN  [subgroup  |-> OrDefault(col, 1, "Unknown"),
                          title     |-> OrDefault(col, 2, "Session"),
                          lecturers |-> OrDefault(col, 3, ""),
                          location  |-> OrDefault(col, 4, "")]]]

\* The detail tables parseDetailedTable is applied to on its own: up to
\* MaxDetailRows rows, a row holding at most half as many cells, each cell
\* empty or with text.
DetailTexts == {"", "a"}
DetailRowCells == MaxDetailRows \div 2
DetailTables == SeqsUpTo(SeqsUpTo(DetailTexts, DetailRowCells), MaxDetailRows)

DetInit ==
    /\ detRows \in DetailTables
    /\ detOut = [threw |-> FALSE, entries |-> <<>>]
    /\ detPhase = "input"

\* One call parseDetailedTable(detailTable).
ParseDetail ==
    /\ detPhase = "input"
    /\ detOut' = parseDetailedTable(detRows)
    /\ detPhase' = "parsed"
    /\ UNCHANGED <<detRows, escVars, uiVars, mergeVars, gridVars, icsVars>>

\* [entry.lecturers, `Group ${entry.subgroup}`].filter(Boolean).join('\n')
DetailDescription(entry) ==
    IF entry.lecturers = "" THEN <<"Group ", entry.subgroup>>
    ELSE <<entry.lecturers, "\n", "Group ", entry.subgroup>>

BucketIndex(subs, subgroup) ==
    IF \E i \in DOMAIN subs : subs[i].subgroup = subgroup
    THEN CHOOSE i \in DOMAIN subs : subs[i].subgroup = subgroup
    ELSE 0

\* subgroupEvents.has / set / get followed by addEvent
PushToSubgroup(subs, subgroup, event) ==
    LET i == BucketIndex(subs, subgroup)
    IN  IF i = 0 THEN Append(subs, [subgroup |-> subgroup, events |-> <<event>>])
        ELSE [subs EXCEPT ![i].events = Append(@, event)]

RECURSIVE PushEntries(_, _, _, _, _)
PushEntries(subs, entries, day, startTime, durationMinutes) ==
    IF entries = <<>> THEN subs
    ELSE LET entry == Head(entries)
         IN  PushEntries(
                PushToSubgroup(subs, entry.subgroup,
                    [day |-> day, start |-> startTime, durationMinutes |-> durationMinutes,
                     title |-> entry.title, location |-> entry.location,
                     description |-> DetailDescription(entry)]),
                Tail(entries), day, startTime, durationMinutes)

\* A plausible slip: the ledger set to rowSpan instead of rowSpan - 1.
SpanAfterCellOffByOne(rowSpan, old) == IF rowSpan > 1 THEN rowSpan ELSE old

\* if (rowSpan > 1) activeSpans[dayIndex] = rowSpan - 1
SpanAfterCell(rowSpan, old) == IF rowSpan > 1 THEN rowSpan - 1 ELSE old

\* A plausible slip: the row's last cell taken for missing.
HasCellButLast(cells, ci) == ci < Len(cells)

\* const cell = cells[cellIndex]; if (!cell) continue
HasCell(cells, ci) == ci <= Len(cells)

\* The for loop over the day columns of one row, from column d with cellIndex
\* ci; st = [spans, shared, subs, crashed].
RECURSIVE DayLoop(_, _, _, _, _, _)
DayLoop(d, ci, st, cells, dayNames, startTime) ==
    IF d > Len(dayNames) \/ st.crashed THEN st
    ELSE IF st.spans[d] > 0
    THEN DayLoop(d + 1, ci, [st EXCEPT !.spans[d] = @ - 1], cells, dayNames, startTime)
    ELSE IF ~HasCell(cells, ci)
    THEN DayLoop(d + 1, ci + 1, st, cells, dayNames, startTime)
    ELSE
      LET cell            == cells[ci]
          rowSpan         == RowSpanOf(cell)
          spanned         == [st EXCEPT !.spans[d] = SpanAfterCell(rowSpan, @)]
          durationMinutes == rowSpan * 60
      IN  IF cell.hasDetail
          THEN LET parsed == parseDetailedTable(cell.detail)
               IN  IF parsed.threw THEN [spanned EXCEPT !.crashed = TRUE]
                   ELSE DayLoop(d + 1, ci + 1,
                          [spanned EXCEPT !.subs =
                              PushEntries(@, parsed.entries, dayNames[d], startTime, durationMinutes)],
                          cells, dayNames, startTime)
          ELSE LET mainEntry == parseMainCell(cell)
               IN  IF mainEntry = NoEntry
                   THEN DayLoop(d + 1, ci + 1, spanned, cells, dayNames, startTime)
                   ELSE DayLoop(d + 1, ci + 1,
                          [spanned EXCEPT !.shared = Append(@,
                              [day |-> dayNames[d], start |-> startTime,
                               durationMinutes |-> durationMinutes,
                               title |-> mainEntry.title, location |-> mainEntry.location,
                               description |-> Txt(mainEntry.lecturers)])],
                          cells, dayNames, startTime)

\* The documents a run is given.  "grid": one table of two day columns whose
\* cells carry row spans; "doc": several tables of one day column whose cells
\* are shared sessions or nested detail tables, one of them ragged.
SharedLines == <<"A", "Dr X", "Hall 1">>
BlankLines  == <<"-x-">>

DetailOne == << <<"G1">>, <<"T1">>, <<"">>, <<"Lab 1">> >>
DetailTwo == << <<"G1", "G2">>, <<"T1", "T2">>, <<"Dr Y", "Dr Z">> >>
DetailWider == << <<"G1">>, <<"T1", "T2">> >>    \* the second row has a cell more than the first

Cell(rowspan, lines) ==
    [rowspan |-> rowspan, lines |-> lines, hasDetail |-> FALSE, detail |-> NoDetail]
DetailCell(rowspan, rows) ==
    [rowspan |-> rowspan, lines |-> <<>>, hasDetail |-> TRUE, detail |-> rows]

RowSpanAttrs == {NoAttr, 0} \cup 2..MaxRowSpan

CellsOf(p) ==
    IF p = "grid"
    THEN {Cell(a, SharedLines) : a \in RowSpanAttrs}
           \cup {Cell(NoAttr, BlankLines), Cell(MaxRowSpan, BlankLines)}
    ELSE {Cell(NoAttr, SharedLines), DetailCell(NoAttr, DetailOne), DetailCell(NoAttr, DetailTwo),
          DetailCell(NoAttr, DetailWider)}

DaysOf(p) == IF p = "grid" THEN <<"Monday", "Tuesday">> ELSE <<"Monday">>

HeadersOf(p) == IF p = "grid" THEN {"Y1.S1.WE.IT"} ELSE {NoHeader, "Y1.S1.WE.IT", "Y2.S1.WD.SE"}

TablesOf(p) == IF p = "grid" THEN 1 ELSE MaxTables

GridInit ==
    /\ gPhase = "args"
    /\ profile \in {"grid", "doc"}
    /\ tablesDone = 0 /\ cellsUsed = 0 /\ rowsUsed = 0
    /\ rowsSeen = 0 /\ mainGroup = "" /\ days = <<>> /\ activeSpans = <<>>
    /\ sharedEvents = <<>> /\ subgroupEvents = <<>> /\ groups = <<>>
    /\ output = NoOutput /\ exitCode = -1

\* if (!inputPath) { console.error(usage); process.exit(1) }
CheckArgs(hasInputPath) ==
    /\ gPhase = "args"
    /\ IF hasInputPath
       THEN gPhase' = "tables" /\ UNCHANGED exitCode
       ELSE gPhase' = "usage" /\ exitCode' = 1
    /\ UNCHANGED <<profile, docVars, tableVars, groups, output, sideVars, mergeVars, icsVars>>

\* tables.forEach callback, up to the row loop: header, day headers, fresh buckets.
StartTable(header) ==
    /\ gPhase \in {"tables", "assembled"}
    /\ tablesDone < TablesOf(profile)
    /\ tablesDone' = tablesDone + 1
    /\ mainGroup' = (IF header = NoHeader THEN "Unknown" ELSE header)
    /\ days' = DaysOf(profile)
    /\ sharedEvents' = <<>>
    /\ subgroupEvents' = <<>>
    /\ activeSpans' = [d \in 1..Len(DaysOf(profile)) |-> 0]
    /\ rowsSeen' = 0
    /\ gPhase' = "rows"
    /\ UNCHANGED <<profile, cellsUsed, rowsUsed, groups, output, exitCode, sideVars, mergeVars, icsVars>>

\* A plausible slip: the row walked whether or not it has a time header.
SkipsRowNever(hasTimeCell) == FALSE

\* if (!timeCell) return
SkipsRow(hasTimeCell) == ~hasTimeCell

\* bodyRows.forEach callback for one row; the k-th body row is headed k hours
\* after 08:00.
ProcessRow(hasTimeCell, cells) ==
    /\ gPhase = "rows"
    /\ rowsUsed < MaxRows
    /\ cellsUsed + Len(cells) <= MaxCells
    /\ rowsSeen' = rowsSeen + 1
    /\ rowsUsed' = rowsUsed + 1
    /\ cellsUsed' = cellsUsed + Len(cells)
    /\ IF SkipsRow(hasTimeCell)
       THEN UNCHANGED <<activeSpans, sharedEvents, subgroupEvents, gPhase>>
       ELSE LET st == DayLoop(1, 1,
                        [spans |-> activeSpans, shared |-> sharedEvents,
                         subs |-> subgroupEvents, crashed |-> FALSE],
                        cells, days, Time(8 + rowsSeen + 1, 0))
            IN  /\ activeSpans' = st.spans
                /\ sharedEvents' = st.shared
                /\ subgroupEvents' = st.subs
                /\ gPhase' = (IF st.crashed THEN "crashed" ELSE "rows")
    /\ exitCode' = (IF gPhase' = "crashed" THEN 1 ELSE exitCode)
    /\ UNCHANGED <<profile, tablesDone, mainGroup, days, groups, output, sideVars, mergeVars, icsVars>>

\* A plausible slip: the table's shared sessions left out of the subgroup's list.
SubgroupGroupsOwnOnly(subs, shared, main) ==
    [i \in DOMAIN subs |->
        [id          |-> subs[i].subgroup,
         label       |-> <<subs[i].subgroup, " (", main, ")">>,
         parentGroup |-> main,
         events      |-> mergeContiguousEvents(subs[i].events)]]

\* subgroupEvents.forEach from its i-th entry on; st = [shared, subs, groups]:
\* the two buckets as the calls so far have left them, and the groups pushed.
RECURSIVE AssembleWalk(_, _, _)
AssembleWalk(i, st, main) ==
    IF i > Len(st.subs) THEN st
    ELSE LET passed == st.shared \o st.subs[i].events
             after  == InputAfterMerge(passed)
         IN  AssembleWalk(i + 1,
               [shared |-> SubSeq(after, 1, Len(st.shared)),
                subs   |-> [st.subs EXCEPT ![i].events =
                               SubSeq(after, Len(st.shared) + 1, Len(after))],
                groups |-> Append(st.groups,
                             [id          |-> st.subs[i].subgroup,
                              label       |-> <<st.subs[i].subgroup, " (", main, ")">>,
                              parentGroup |-> main,
                              events      |-> mergeContiguousEvents(passed)])],
               main)

SubgroupGroups(subs, shared, main) ==
    AssembleWalk(1, [shared |-> shared, subs |-> subs, groups |-> <<>>], main).groups

\* The end of the tables.forEach callback: the table's groups are pushed.
AssembleTable ==
    /\ gPhase = "rows"
    /\ groups' = groups \o
         (IF Len(subgroupEvents) > 0
          THEN SubgroupGroups(subgroupEvents, sharedEvents, mainGroup)
          ELSE << [id |-> mainGroup, label |-> <<mainGroup>>, parentGroup |-> mainGroup,
                   events |-> mergeContiguousEvents(sharedEvents)] >>)
    /\ IF Len(subgroupEvents) > 0
       THEN LET left == AssembleWalk(1, [shared |-> sharedEvents, subs |-> subgroupEvents,
                                         groups |-> <<>>], mainGroup)
            IN  sharedEvents' = left.shared /\ subgroupEvents' = left.subs
       ELSE sharedEvents' = InputAfterMerge(sharedEvents) /\ UNCHANGED subgroupEvents
    /\ gPhase' = "assembled"
    /\ UNCHANGED <<profile, docVars, rowsSeen, mainGroup, days, activeSpans, output, exitCode,
                   sideVars, mergeVars, icsVars>>

\* writeFileSync(outputPath, ...) and the count printed.
WriteOutput ==
    /\ gPhase \in {"tables", "assembled"}
    /\ output' = [written |-> TRUE, groups |-> groups, printed |-> Len(groups)]
    /\ exitCode' = 0
    /\ gPhase' = "written"
    /\ UNCHANGED <<profile, docVars, tableVars, groups, sideVars, mergeVars, icsVars>>

(***************************************************************************)
(* Dates and their texts (App.tsx).  The JavaScript Date is the pair of    *)
(* its local day number and second of the day.                             *)
(***************************************************************************)
Digits == <<"0", "1", "2", "3", "4", "5", "6", "7", "8", "9">>

\* `${value}` of a non-negative integer
RECURSIVE ToDecimal(_)
ToDecimal(n) ==
    IF n < 10 THEN <<Digits[n + 1]>> ELSE ToDecimal(n \div 10) \o <<Digits[(n % 10) + 1]>>

\* Number(part) of a run of decimal digits
RECURSIVE NumberOf(_)
NumberOf(chars) ==
    IF chars = <<>> THEN 0
    ELSE NumberOf(SubSeq(chars, 1, Len(chars) - 1)) * 10
           + ((CHOOSE d \in 1..10 : Digits[d] = chars[Len(chars)]) - 1)

\* `${value}`.padStart(2, '0')
pad(value) ==
    LET text == ToDecimal(value)
    IN  IF Len(text) < 2 THEN <<"0">> \o text ELSE text

\* String.prototype.split with a one-character separator
RECURSIVE Split(_, _)
Split(chars, sep) ==
    IF \A i \in DOMAIN chars : chars[i] # sep THEN <<chars>>
    ELSE LET i == CHOOSE k \in DOMAIN chars :
                    chars[k] = sep /\ \A j \in 1..(k - 1) : chars[j] # sep
         IN  <<SubSeq(chars, 1, i - 1)>> \o Split(SubSeq(chars, i + 1, Len(chars)), sep)

\* new Date(year, monthIndex, day): the day number of a civil date.
DaysFromCivil(year, month, day) ==
    LET y   == IF month <= 2 THEN year - 1 ELSE year
        era == y \div 400
        yoe == y - era * 400
        mp  == IF month > 2 THEN month - 3 ELSE month + 9
        doy == (153 * mp + 2) \div 5 + day - 1
        doe == yoe * 365 + yoe \div 4 - yoe \div 100 + doy
    IN  era * 146097 + doe - 719468

\* getFullYear, getMonth() + 1 and getDate of a day number.
CivilFromDays(dn) ==
    LET z   == dn + 719468
        era == z \div 146097
        doe == z - era * 146097
        yoe == (doe - doe \div 1460 + doe \div 36524 - doe \div 146096) \div 365
        doy == doe - (365 * yoe + yoe \div 4 - yoe \div 100)
        mp  == (5 * doy + 2) \div 153
        d   == doy - (153 * mp + 2) \div 5 + 1
        m   == IF mp < 10 THEN mp + 3 ELSE mp - 9
    IN  [year |-> yoe + era * 400 + (IF m <= 2 THEN 1 ELSE 0), month |-> m, day |-> d]

\* Date.prototype.getDay: Sunday = 0; 1970-01-01 was a Thursday.
getDay(date) == (date.dn + 4) % 7

\* A plausible slip: midnight instead of the end of the day.
setHoursIgnored(date, hours, minutes, seconds) == [date EXCEPT !.sec = 0]

\* A plausible slip: the seconds dropped.
setHoursDropSeconds(date, hours, minutes, seconds) ==
    [date EXCEPT !.sec = hours * 3600 + minutes * 60]

\* Date.prototype.setHours(h, m, s, 0) with in-range arguments.
setHours(date, hours, minutes, seconds) ==
    [date EXCEPT !.sec = hours * 3600 + minutes * 60 + seconds]

\* new Date(date.getTime() + minutes * 60000)
AddMinutes(date, minutes) ==
    LET total == date.sec + minutes * 60
    IN  [dn |-> date.dn + total \div 86400, sec |-> total % 86400]

formatDateTimeLocal(date) ==
    LET c == CivilFromDays(date.dn)
    IN  ToDecimal(c.year) \o pad(c.month) \o pad(c.day) \o <<"T">>
          \o pad(date.sec \div 3600) \o pad((date.sec % 3600) \div 60) \o pad(date.sec % 60)

formatDateInput(date) ==
    LET c == CivilFromDays(date.dn)
    IN  ToDecimal(c.year) \o <<"-">> \o pad(c.month) \o <<"-">> \o pad(c.day)

parseDateOnly(dateString) ==
    LET parts == Split(dateString, "-")
    IN  [dn  |-> DaysFromCivil(NumberOf(parts[1]), NumberOf(parts[2]), NumberOf(parts[3])),
         sec |-> 0]

SEMESTER_START == <<"2", "0", "2", "6", "-", "0", "1", "-", "1", "9">>
SEMESTER_END   == <<"2", "0", "2", "6", "-", "0", "5", "-", "3", "0">>

\* A plausible slip: the parser's Monday-first order used for the calendar.
dayIndexMondayFirst(day) == dayIndex(day)

\* dayIndexByName[event.day] ?? 1
dayIndexByName(day) ==
    CASE day = "Sunday"    -> 0
      [] day = "Monday"    -> 1
      [] day = "Tuesday"   -> 2
      [] day = "Wednesday" -> 3
      [] day = "Thursday"  -> 4
      [] day = "Friday"    -> 5
      [] day = "Saturday"  -> 6
      [] OTHER             -> 1

\* The while loop of getFirstOccurrence: the date reached and the number of
\* times the body ran.
RECURSIVE ScanForward(_, _, _)
ScanForward(date, targetDay, steps) ==
    IF getDay(date) # targetDay /\ steps < ScanFuel
    THEN ScanForward([date EXCEPT !.dn = @ + 1], targetDay, steps + 1)
    ELSE [date |-> date, steps |-> steps]

\* A plausible slip: the scan begun on the day after the range start.
getFirstOccurrenceAfter(start, targetDay) ==
    ScanForward([start EXCEPT !.dn = @ + 1], targetDay, 0)

getFirstOccurrence(start, targetDay) == ScanForward(start, targetDay, 0)

(***************************************************************************)
(* buildIcs and handleDownload (App.tsx).  A line `NAME:value` is the      *)
(* record of its name and its value; the value is the sequence of the      *)
(* pieces it is concatenated from.  The text is its lines joined by CRLF.  *)
(***************************************************************************)
Line(name, value) == [name |-> name, value |-> value]

StartText(start) == pad(start.h) \o <<":">> \o pad(start.m)

\* A plausible slip: the line written whether or not there is a value.
OptionalAlways(name, value) == <<Line(name, escapeIcsText(value))>>

\* value ? `NAME:${escapeIcsText(value)}` : null, as filter(Boolean) leaves it
Optional(name, value) ==
    IF value # <<>> THEN <<Line(name, escapeIcsText(value))>> ELSE <<>>

\* A plausible slip: the index left out of the UID.
UidNoIndex(group, event, index) ==
    <<group.id, "-", event.day, "-">> \o StartText(event.start) \o <<"@unischedule">>

\* `${group.id}-${event.day}-${event.start}-${index}@unischedule`
Uid(group, event, index) ==
    <<group.id, "-", event.day, "-">> \o StartText(event.start)
      \o <<"-">> \o ToDecimal(index) \o <<"@unischedule">>

\* A plausible slip: the UID made unique with the time of the export.
VEventStampedUid(group, event, index, start, until, now) ==
    LET first      == getFirstOccurrence(start, dayIndexByName(event.day))
        eventStart == setHours(first.date, event.start.h, event.start.m, 0)
        eventEnd   == AddMinutes(eventStart, event.durationMinutes)
        uid        == <<group.id, "-", event.day, "-">> \o StartText(event.start)
                        \o <<"-">> \o ToDecimal(index) \o <<"-", now, "@unischedule">>
    IN  [lines |->
           << Line("BEGIN", <<"VEVENT">>),
              Line("UID", uid),
              Line("DTSTAMP", <<now>>),
              Line("SUMMARY", escapeIcsText(event.title)),
              Line("DTSTART", formatDateTimeLocal(eventStart)),
              Line("DTEND", formatDateTimeLocal(eventEnd)),
              Line("RRULE", <<"FREQ=WEEKLY;UNTIL=">> \o formatDateTimeLocal(until)) >>
           \o Optional("LOCATION", event.location)
           \o Optional("DESCRIPTION", event.description)
           \o <<Line("END", <<"VEVENT">>)>>,
         steps |-> first.steps]

\* One element of group.events.map(...): the VEVENT's lines (what
\* filter(Boolean) keeps) and the length of its first-occurrence scan.
VEvent(group, event, index, start, until, now) ==
    LET first      == getFirstOccurrence(start, dayIndexByName(event.day))
        eventStart == setHours(first.date, event.start.h, event.start.m, 0)
        eventEnd   == AddMinutes(eventStart, event.durationMinutes)
        uid        == Uid(group, event, index)
    IN  [lines |->
           << Line("BEGIN", <<"VEVENT">>),
              Line("UID", uid),
              Line("DTSTAMP", <<now>>),
              Line("SUMMARY", escapeIcsText(event.title)),
              Line("DTSTART", formatDateTimeLocal(eventStart)),
              Line("DTEND", formatDateTimeLocal(eventEnd)),
              Line("RRULE", <<"FREQ=WEEKLY;UNTIL=">> \o formatDateTimeLocal(until)) >>
           \o Optional("LOCATION", event.location)
           \o Optional("DESCRIPTION", event.description)
           \o <<Line("END", <<"VEVENT">>)>>,
         steps |-> first.steps]

RECURSIVE Flatten(_)
Flatten(ss) == IF ss = <<>> THEN <<>> ELSE Head(ss) \o Flatten(Tail(ss))

\* The text of one line: `NAME:value`, or the empty string.
LineText(line) == IF line.name = "" THEN <<>> ELSE <<line.name, ":">> \o line.value

CRLF == "\r\n"

RECURSIVE Join(_, _)
Join(lines, sep) ==
    IF lines = <<>> THEN <<>>
    ELSE IF Len(lines) = 1 THEN LineText(lines[1])
    ELSE LineText(Head(lines)) \o <<sep>> \o Join(Tail(lines), sep)

\* A plausible slip: a bare line feed as the separator.
JoinLf(lines) == Join(lines, "\n")

\* .join('\r\n'), of a VEVENT's lines and then of the document's
JoinCrlf(lines) == Join(lines, CRLF)

buildIcs(group, startText, endText, now) ==
    LET start  == parseDateOnly(startText)
        end    == parseDateOnly(endText)
        until  == setHours(end, 23, 59, 59)
        vevents == [i \in DOMAIN group.events |->
                      VEvent(group, group.events[i], i - 1, start, until, now)]
    IN  [lines |->
           << Line("BEGIN", <<"VCALENDAR">>),
              Line("VERSION", <<"2.0">>),
              Line("PRODID", <<"-//UniSchedule//Timetable//EN">>),
              Line("CALSCALE", <<"GREGORIAN">>) >>
           \o Flatten([i \in DOMAIN vevents |-> vevents[i].lines])
           \o << Line("END", <<"VCALENDAR">>), Line("", <<>>) >>,
         text  |-> JoinCrlf(
           << Line("BEGIN", <<"VCALENDAR">>),
              Line("VERSION", <<"2.0">>),
              Line("PRODID", <<"-//UniSchedule//Timetable//EN">>),
              Line("CALSCALE", <<"GREGORIAN">>) >>
           \o Flatten([i \in DOMAIN vevents |-> vevents[i].lines])
           \o << Line("END", <<"VCALENDAR">>), Line("", <<>>) >>),
         steps |-> [i \in DOMAIN vevents |-> vevents[i].steps],
         calls |-> <<"parseDateOnly", "parseDateOnly", "setHours">>
                     \o Flatten([i \in DOMAIN vevents |-> <<"getFirstOccurrence", "setHours">>])]

\* A plausible slip: the comparison turned around.
dateRangeErrorReversed(start, end) ==
    IF start.dn * 86400 + start.sec < end.dn * 86400 + end.sec
    THEN "End date must be on or after start date." ELSE ""

\* useMemo: startDate > endDate compares the two instants.
dateRangeError(start, end) ==
    IF start.dn * 86400 + start.sec > end.dn * 86400 + end.sec
    THEN "End date must be on or after start date." ELSE ""

\* The sessions and groups the encoder is given: every weekday name and one
\* name the calendar does not know, starts at both ends of the day, and texts
\* with and without the characters that are escaped.
Chr(str) == <<str>>

IcsSlots ==
    { [start |-> Time(14, 0), durationMinutes |-> 90,
       title |-> <<"L", "a", "b">>, location |-> <<>>, description |-> <<>>],
      [start |-> Time(23, 59), durationMinutes |-> 60,
       title |-> <<"A", ",", "B">>, location |-> <<"H", ";", "1">>,
       description |-> <<"X", NL, "G", "1">>],
      [start |-> Time(0, 0), durationMinutes |-> 120,
       title |-> <<"C", BS>>, location |-> <<"R">>, description |-> <<>>] }

IcsDays == {"Sunday", "Monday", "Tuesday", "Wednesday", "Thursday", "Friday", "Saturday", "Funday"}

IcsSession(day, slot) ==
    [day |-> day, start |-> slot.start, durationMinutes |-> slot.durationMinutes,
     title |-> slot.title, location |-> slot.location, description |-> slot.description]

IcsGroup(id, evs) == [id |-> id, events |-> evs, found |-> TRUE]

IcsGroups ==
    {IcsGroup("G1", <<IcsSession(d, sl)>>) : d \in IcsDays, sl \in IcsSlots}
      \cup {IcsGroup("G2", <<>>)}
      \cup {IcsGroup("G3", <<IcsSession("Wednesday", sl), IcsSession("Wednesday", sl)>>) :
              sl \in IcsSlots}

\* What the date pickers can hand back: a day at or after one of the two
\* semester anchors at midnight, or an anchor day carrying a time of day.
PickerDates ==
    {[dn |-> parseDateOnly(a).dn + k, sec |-> 0] :
        a \in {SEMESTER_START, SEMESTER_END}, k \in 0..MaxDayOffset}
      \cup {[dn |-> parseDateOnly(a).dn, sec |-> 43200] : a \in {SEMESTER_START, SEMESTER_END}}

Clock == {"20261106T080000Z", "20261106T080001Z"}

IcsInit ==
    /\ startDate = parseDateOnly(SEMESTER_START)
    /\ endDate = parseDateOnly(SEMESTER_END)
    /\ selectedGroup \in IcsGroups \cup {NoGroup}
    /\ platform \in {"web", "ios"}
    /\ alertShown = ""
    /\ download = NoDownload
    /\ dateCalls = <<>>
    /\ called = FALSE
    /\ timetable = <<>> /\ encodes = <<>>

\* A UI event other than the download: nothing of the last download remains.
NoCall == alertShown' = "" /\ download' = NoDownload /\ dateCalls' = <<>> /\ called' = FALSE

\* setStartDate(date) from a picker
PickStartDate(date) ==
    /\ startDate' = date
    /\ NoCall
    /\ UNCHANGED <<endDate, selectedGroup, platform, encVars, sideVars, mergeVars, gridVars>>

\* setEndDate(date) from a picker
PickEndDate(date) ==
    /\ endDate' = date
    /\ NoCall
    /\ UNCHANGED <<startDate, selectedGroup, platform, encVars, sideVars, mergeVars, gridVars>>

handleDownload(now) ==
    /\ called' = TRUE
    /\ IF ~selectedGroup.found
       THEN alertShown' = "" /\ download' = NoDownload /\ dateCalls' = <<>>
       ELSE IF dateRangeError(startDate, endDate) # ""
       THEN alertShown' = "Invalid date range" /\ download' = NoDownload /\ dateCalls' = <<>>
       ELSE IF platform # "web"
       THEN alertShown' = "Web only" /\ download' = NoDownload /\ dateCalls' = <<>>
       ELSE LET content == buildIcs(selectedGroup, formatDateInput(startDate),
                                    formatDateInput(endDate), now)
            IN  /\ alertShown' = ""
                /\ dateCalls' = <<"formatDateInput", "formatDateInput">> \o content.calls
                /\ download' = [happened |-> TRUE,
                                name     |-> <<selectedGroup.id, "-timetable.ics">>,
                                lines    |-> content.lines,
                                text     |-> content.text,
                                steps    |-> content.steps]
    /\ UNCHANGED <<startDate, endDate, selectedGroup, platform, encVars, sideVars, mergeVars, gridVars>>

(***************************************************************************)
(* Repeated encode calls (App.tsx): buildIcs is handed a group of the      *)
(* timetable by reference, and two date texts.                             *)
(***************************************************************************)
EncSlot == [start |-> Time(23, 59), durationMinutes |-> 60,
            title |-> <<"A", ",", "B">>, location |-> <<"H", ";", "1">>,
            description |-> <<"X", NL, "G", "1">>]

EncTimetable ==
    << IcsGroup("G1", <<IcsSession("Wednesday", EncSlot)>>),
       IcsGroup("G3", <<IcsSession("Friday", EncSlot), IcsSession("Funday", EncSlot)>>) >>

EncStartTexts == {SEMESTER_START, formatDateInput([dn |-> parseDateOnly(SEMESTER_START).dn + 2, sec |-> 0])}
EncEndTexts   == {SEMESTER_END, formatDateInput([dn |-> parseDateOnly(SEMESTER_END).dn + 1, sec |-> 0])}

EncInit == timetable = EncTimetable /\ encodes = <<>>

\* One call buildIcs(groups[g], startText, endText): the group is only read.
CallBuildIcs(g, startText, endText, now) ==
    /\ Len(encodes) < MaxCalls
    /\ encodes' = Append(encodes,
          [group |-> g, startText |-> startText, endText |-> endText,
           lines |-> buildIcs(timetable[g], startText, endText, now).lines])
    /\ UNCHANGED <<timetable, startDate, endDate, selectedGroup, platform, callVars,
                   sideVars, mergeVars, gridVars>>

(***************************************************************************)
(* The group filters (App.tsx).  A group is its id and the parts, split at *)
(* the dots, of parentGroup || id.  An option list is the set of its       *)
(* values; its first element is the least one in the order sort() gives.   *)
(***************************************************************************)
\* parts[i] ?? default
PartOr(parts, i, default) == IF i <= Len(parts) THEN parts[i] ELSE default

parseGroupMeta(group) ==
    LET year     == PartOr(group.base, 1, "Unknown")
        semester == PartOr(group.base, 2, "S1")
    IN  [year |-> year, semester |-> semester, yearKey |-> <<year, ".", semester>>,
         mode |-> PartOr(group.base, 3, "WE"),
         specialization |-> PartOr(group.base, 4, "GEN")]

\* The texts of the filters in the order of Array.prototype.sort (code units).
TextOrder == <<"GEN", "IT", "S1", "SE", "Unknown", "WD", "WE", "Y1", "Y2">>
TextRank(text) == CHOOSE i \in DOMAIN TextOrder : TextOrder[i] = text

\* options[0] of a sorted list of texts, and of a sorted list of year keys
FirstText(options) ==
    CHOOSE x \in options : \A y \in options : TextRank(x) <= TextRank(y)
FirstKey(options) ==
    CHOOSE x \in options : \A y \in options :
        \/ TextRank(x[1]) < TextRank(y[1])
        \/ TextRank(x[1]) = TextRank(y[1]) /\ TextRank(x[3]) <= TextRank(y[3])

Metas(gs) == {parseGroupMeta(gs[i]) : i \in DOMAIN gs}

yearOptions(gs) == {m.yearKey : m \in Metas(gs)}

\* A plausible slip: the modes of every year offered.
modeOptionsOfAllYears(gs, yk) == {m.mode : m \in Metas(gs)}

modeOptions(gs, yk) == {m.mode : m \in {n \in Metas(gs) : n.yearKey = yk}}

specializationOptions(gs, yk, md) ==
    {m.specialization : m \in {n \in Metas(gs) : n.yearKey = yk /\ n.mode = md}}

groupOptions(gs, yk, md, sp) ==
    SelectSeq(gs, LAMBDA g : /\ parseGroupMeta(g).yearKey = yk
                             /\ parseGroupMeta(g).mode = md
                             /\ parseGroupMeta(g).specialization = sp)

\* groups.find((group) => group.id === selectedId), or NoUiGroup
NoUiGroup == [id |-> "", base |-> <<>>]
FindGroup(gs, id) ==
    IF \E i \in DOMAIN gs : gs[i].id = id
    THEN gs[CHOOSE i \in DOMAIN gs : gs[i].id = id /\ \A j \in 1..(i - 1) : gs[j].id # id]
    ELSE NoUiGroup

\* The four correcting effects, each on the values of the render it follows.
CorrectedYear ==
    IF yearOptions(uiGroups) # {} /\ yearKey \notin yearOptions(uiGroups)
    THEN FirstKey(yearOptions(uiGroups)) ELSE yearKey
CorrectedMode ==
    IF modeOptions(uiGroups, yearKey) # {} /\ mode \notin modeOptions(uiGroups, yearKey)
    THEN FirstText(modeOptions(uiGroups, yearKey)) ELSE mode
CorrectedSpecialization ==
    LET options == specializationOptions(uiGroups, yearKey, mode)
    IN  IF options # {} /\ specialization \notin options THEN FirstText(options)
        ELSE specialization
CorrectedId ==
    LET options == groupOptions(uiGroups, yearKey, mode, specialization)
    IN  IF Len(options) > 0 /\ ~\E i \in DOMAIN options : options[i].id = selectedId
        THEN options[1].id ELSE selectedId

\* No effect has a state update to make.
Settled ==
    /\ CorrectedYear = yearKey
    /\ CorrectedMode = mode
    /\ CorrectedSpecialization = specialization
    /\ CorrectedId = selectedId

\* The timetables the app is built with: the groups of a few tables, sorted
\* by label; subgroups of different tables can have the same id.
UiGroup(id, base) == [id |-> id, base |-> base]
UiUniverse ==
    << UiGroup("A1", <<"Y1", "S1", "WE", "IT">>),
       UiGroup("A1", <<"Y2", "S1", "WD", "SE">>),
       UiGroup("A2", <<"Y1", "S1", "WE", "IT">>),
       UiGroup("A2", <<"Y1", "S1", "WE", "SE">>),
       UiGroup("B1", <<"Y1", "S1", "WD", "IT">>),
       UiGroup("Unknown", <<"Unknown">>),
       UiGroup("Y2.S1.WD.IT", <<"Y2", "S1", "WD", "IT">>) >>
UiDatasets ==
    {SelectSeq([i \in DOMAIN UiUniverse |-> [at |-> i, group |-> UiUniverse[i]]],
               LAMBDA e : e.at \in kept) : kept \in SUBSET DOMAIN UiUniverse}

\* The useState initial values, each from the options of the ones before it.
UiInit ==
    /\ \E data \in UiDatasets : uiGroups = [i \in DOMAIN data |-> data[i].group]
    /\ yearKey = (IF yearOptions(uiGroups) = {} THEN <<>> ELSE FirstKey(yearOptions(uiGroups)))
    /\ mode = (IF modeOptions(uiGroups, yearKey) = {} THEN ""
               ELSE FirstText(modeOptions(uiGroups, yearKey)))
    /\ specialization = (IF specializationOptions(uiGroups, yearKey, mode) = {} THEN ""
                         ELSE FirstText(specializationOptions(uiGroups, yearKey, mode)))
    /\ selectedId = (IF groupOptions(uiGroups, yearKey, mode, specialization) = <<>> THEN ""
                     ELSE groupOptions(uiGroups, yearKey, mode, specialization)[1].id)

\* The pickers' onValueChange; an event is handled once the effects of the
\* last render have run.
SelectYear(value) ==
    /\ Settled
    /\ yearKey' = value
    /\ UNCHANGED <<uiGroups, mode, specialization, selectedId, escVars, detVars,
                   mergeVars, gridVars, icsVars>>
SelectMode(value) ==
    /\ Settled
    /\ mode' = value
    /\ UNCHANGED <<uiGroups, yearKey, specialization, selectedId, escVars, detVars,
                   mergeVars, gridVars, icsVars>>
SelectSpecialization(value) ==
    /\ Settled
    /\ specialization' = value
    /\ UNCHANGED <<uiGroups, yearKey, mode, selectedId, escVars, detVars,
                   mergeVars, gridVars, icsVars>>
SelectGroup(value) ==
    /\ Settled
    /\ selectedId' = value
    /\ UNCHANGED <<uiGroups, yearKey, mode, specialization, escVars, detVars,
                   mergeVars, gridVars, icsVars>>

\* One commit's effects: the state updates they ask for are applied together.
RunEffects ==
    /\ ~Settled
    /\ yearKey' = CorrectedYear
    /\ mode' = CorrectedMode
    /\ specialization' = CorrectedSpecialization
    /\ selectedId' = CorrectedId
    /\ UNCHANGED <<uiGroups, escVars, detVars, mergeVars, gridVars, icsVars>>

(***************************************************************************)
(* Specifications                                                          *)
(***************************************************************************)
InitEscape == EscInit /\ DetIdle /\ UiIdle /\ MergeIdle /\ GridIdle /\ IcsIdle
NextEscape == EscapeText
SpecEscape == InitEscape /\ [][NextEscape]_vars

InitDetail == DetInit /\ EscIdle /\ UiIdle /\ MergeIdle /\ GridIdle /\ IcsIdle
NextDetail == ParseDetail
SpecDetail == InitDetail /\ [][NextDetail]_vars

InitMerge == MergeInit /\ SideIdle /\ GridIdle /\ IcsIdle
NextMerge ==
    \/ \E e \in MergeEvents : addEvent(e)
    \/ MergeCall
    \/ MergeAgain
SpecMerge == InitMerge /\ [][NextMerge]_vars

InitGrid == GridInit /\ SideIdle /\ MergeIdle /\ IcsIdle
NextGrid ==
    \/ \E hasInputPath \in BOOLEAN : CheckArgs(hasInputPath)
    \/ \E header \in HeadersOf(profile) : StartTable(header)
    \/ \E cells \in SeqsUpTo(CellsOf(profile), Len(DaysOf(profile))) : ProcessRow(TRUE, cells)
    \/ ProcessRow(FALSE, <<>>)
    \/ AssembleTable
    \/ WriteOutput
SpecGrid == InitGrid /\ [][NextGrid]_vars

InitIcs == IcsInit /\ SideIdle /\ MergeIdle /\ GridIdle
NextIcs ==
    \/ \E date \in PickerDates : PickStartDate(date)
    \/ \E date \in PickerDates : PickEndDate(date)
    \/ \E now \in Clock : handleDownload(now)
SpecIcs == InitIcs /\ [][NextIcs]_vars

IcsRest ==
    /\ startDate = NoDate /\ endDate = NoDate /\ selectedGroup = NoGroup
    /\ platform = "none" /\ alertShown = "" /\ download = NoDownload
    /\ dateCalls = <<>> /\ called = FALSE

InitUi == UiInit /\ EscIdle /\ DetIdle /\ MergeIdle /\ GridIdle /\ IcsIdle
NextUi ==
    \/ \E value \in yearOptions(uiGroups) : SelectYear(value)
    \/ \E value \in modeOptions(uiGroups, yearKey) : SelectMode(value)
    \/ \E value \in specializationOptions(uiGroups, yearKey, mode) : SelectSpecialization(value)
    \/ \E i \in DOMAIN groupOptions(uiGroups, yearKey, mode, specialization) :
          SelectGroup(groupOptions(uiGroups, yearKey, mode, specialization)[i].id)
    \/ RunEffects
SpecUi == InitUi /\ [][NextUi]_vars /\ WF_vars(RunEffects)

InitEncode == EncInit /\ IcsRest /\ SideIdle /\ MergeIdle /\ GridIdle
NextEncode ==
    \E g \in DOMAIN timetable, startText \in EncStartTexts, endText \in EncEndTexts,
       now \in Clock : CallBuildIcs(g, startText, endText, now)
SpecEncode == InitEncode /\ [][NextEncode]_vars

(***************************************************************************)
(* Claims about mergeContiguousEvents (SpecMerge)                          *)
(***************************************************************************)
EndMinutes(e) == toMinutes(e.start) + e.durationMinutes

SameMeeting(p, q) ==
    /\ p.day = q.day
    /\ p.title = q.title
    /\ p.location = q.location
    /\ p.description = q.description

\* C3 as stated: the output of mergeContiguousEvents holds no two entries with
\* the same day, title, location and description of which one ends at the
\* minute the other starts.
C3_NoSplitAnywhere ==
    mergePhase \in {"merged", "remerged"} =>
        \A i, j \in DOMAIN merged :
            i # j => ~(SameMeeting(merged[i], merged[j])
                       /\ EndMinutes(merged[i]) = toMinutes(merged[j].start))

\* C3 amended: no two consecutive entries of the output have the same day,
\* title, location and description with the first ending at the minute the
\* second starts.
C3_NoSplitAdjacent ==
    mergePhase \in {"merged", "remerged"} =>
        \A i \in 1..(Len(merged) - 1) :
            ~(SameMeeting(merged[i], merged[i + 1])
              /\ EndMinutes(merged[i]) = toMinutes(merged[i + 1].start))

\* A merge happened and the output still holds two consecutive entries of the
\* same meeting (kept apart by a gap or an overlap).
C3_Witness ==
    /\ mergePhase = "merged"
    /\ Len(events) = 3
    /\ Len(merged) = 2
    /\ SameMeeting(merged[1], merged[2])

\* C4: merging the output of mergeContiguousEvents again returns the same
\* entries in the same order with the same durations.
C4_MergeIdempotent ==
    mergePhase = "remerged" => remerged = merged

\* The first pass merged two sessions, left two entries that tie in the sort
\* order, and the second pass has run.
C4_Witness ==
    /\ mergePhase = "remerged"
    /\ Len(events) = 3
    /\ Len(merged) = 2
    /\ compareEvents(merged[1], merged[2]) = 0
    /\ merged[1].durationMinutes = 120

\* C5: walking the sorted sequence, the candidate is merged into the last
\* accepted session exactly when day, title, location and description are
\* equal and the last session ends at the minute the candidate starts; the
\* merged session keeps the earlier start and has the sum of the durations;
\* otherwise the candidate is appended and both keep their durations.
C5_RuleAt(k) ==
    LET sorted == sortEvents(events)
        before == MergeWalk(<<>>, SubSeq(sorted, 1, k - 1))
        after  == MergeWalk(<<>>, SubSeq(sorted, 1, k))
        c      == sorted[k]
    IN  IF k = 1 THEN after = <<c>>
        ELSE LET n    == Len(before)
                 last == before[n]
             IN  IF /\ last.day = c.day
                    /\ last.title = c.title
                    /\ last.location = c.location
                    /\ last.description = c.description
                    /\ last.start.h * 60 + last.start.m + last.durationMinutes
                         = c.start.h * 60 + c.start.m
                 THEN /\ Len(after) = n
                      /\ SubSeq(after, 1, n - 1) = SubSeq(before, 1, n - 1)
                      /\ after[n].start = last.start
                      /\ after[n].durationMinutes = last.durationMinutes + c.durationMinutes
                      /\ SameMeeting(after[n], last)
                 ELSE after = Append(before, c)

C5_MergeRule ==
    mergePhase = "merged" =>
        /\ \A k \in 1..Len(events) : C5_RuleAt(k)
        /\ merged = MergeWalk(<<>>, sortEvents(events))

MonA(h, dur, title) ==
    [day |-> "Monday", start |-> Time(h, 0), durationMinutes |-> dur,
     title |-> title, location |-> "L", description |-> "D"]

\* The spec's example pair was merged into one session of 120 minutes, and a
\* third session that differs in its title stayed separate.
C5_Witness ==
    /\ mergePhase = "merged"
    /\ events = <<MonA(9, 60, "A"), MonA(10, 60, "A"), MonA(11, 60, "B")>>
    /\ merged = <<MonA(9, 120, "A"), MonA(11, 60, "B")>>

\* The weekday index of the claim: Monday = 0 .. Sunday = 6.
WeekDays == {"Monday", "Tuesday", "Wednesday", "Thursday", "Friday", "Saturday", "Sunday"}
WeekdayIndex(day) ==
    CASE day = "Monday" -> 0 [] day = "Tuesday" -> 1 [] day = "Wednesday" -> 2
      [] day = "Thursday" -> 3 [] day = "Friday" -> 4 [] day = "Saturday" -> 5
      [] day = "Sunday" -> 6

KeyLeq(a, b) ==
    \/ WeekdayIndex(a.day) < WeekdayIndex(b.day)
    \/ /\ WeekdayIndex(a.day) = WeekdayIndex(b.day)
       /\ a.start.h * 60 + a.start.m <= b.start.h * 60 + b.start.m

SameKey(a, b) == a.day = b.day /\ a.start = b.start

\* a is b with some entries left out, durations aside.
RECURSIVE IsSubsequence(_, _)
IsSubsequence(a, b) ==
    IF a = <<>> THEN TRUE
    ELSE IF b = <<>> THEN FALSE
    ELSE IF SameMeeting(Head(a), Head(b)) /\ Head(a).start = Head(b).start
         THEN IsSubsequence(Tail(a), Tail(b))
         ELSE IsSubsequence(a, Tail(b))

\* C21: the output of mergeContiguousEvents is non-decreasing in (weekday
\* index Monday = 0 .. Sunday = 6, start minutes); the sorted sequence keeps
\* the entries of equal day and start in their input order; and the output is
\* the sorted sequence with the merged-away entries left out, in the same order.
C21_OutputOrder ==
    mergePhase = "merged" =>
        LET sorted == sortEvents(events)
            known  == SelectSeq(merged, LAMBDA e : e.day \in WeekDays)
        IN  /\ \A i, j \in DOMAIN known : i < j => KeyLeq(known[i], known[j])
            /\ \A k \in DOMAIN events :
                  SelectSeq(sorted, LAMBDA e : SameKey(e, events[k]))
                    = SelectSeq(events, LAMBDA e : SameKey(e, events[k]))
            /\ IsSubsequence(merged, sorted)
            /\ merged # <<>> => SameKey(merged[1], sorted[1])

\* A Tuesday session pushed first and two Monday sessions of the same start
\* came out Monday first, the two Monday ones in their input order.
C21_Witness ==
    /\ mergePhase = "merged"
    /\ events = <<Session("Tuesday", <<Time(9, 0), 60>>, <<"A", "L", "D">>),
                  MonA(10, 60, "B"), MonA(10, 60, "A")>>
    /\ merged = <<MonA(10, 60, "B"), MonA(10, 60, "A"),
                  Session("Tuesday", <<Time(9, 0), 60>>, <<"A", "L", "D">>)>>

Durations(evs) == [k \in DOMAIN evs |-> evs[k].durationMinutes]

\* C25: the durations of the output of mergeContiguousEvents add up to those
\* of the input, the output is no longer than the input, and every output
\* entry has the day, title, location and description of an input entry.
C25_Conservation ==
    mergePhase = "merged" =>
        /\ SumSeq(Durations(merged)) = SumSeq(Durations(events))
        /\ Len(merged) <= Len(events)
        /\ \A i \in DOMAIN merged : \E k \in DOMAIN events : SameMeeting(merged[i], events[k])

\* Three contiguous hours, pushed out of order, came out as one session of
\* 180 minutes.
C25_Witness ==
    /\ mergePhase = "merged"
    /\ events = <<MonA(11, 60, "A"), MonA(9, 60, "A"), MonA(10, 60, "A")>>
    /\ merged = <<MonA(9, 180, "A")>>

(***************************************************************************)
(* Claims about the parse run (SpecGrid)                                   *)
(***************************************************************************)
RECURSIVE RowsBooked(_, _)
RowsBooked(evs, day) ==
    IF evs = <<>> THEN 0
    ELSE (IF Head(evs).day = day THEN Head(evs).durationMinutes \div 60 ELSE 0)
           + RowsBooked(Tail(evs), day)

\* C1: once a table's body rows are walked, for every day column the sessions
\* emitted for that day (the shared ones and those of any one subgroup), each
\* counted as durationMinutes / 60 rows, do not exceed the table's body rows.
C1_Coverage ==
    gPhase = "assembled" =>
        \A d \in DOMAIN days :
            /\ RowsBooked(sharedEvents, days[d]) <= rowsSeen
            /\ \A i \in DOMAIN subgroupEvents :
                  RowsBooked(sharedEvents \o subgroupEvents[i].events, days[d]) <= rowsSeen

\* C2: the ids of the groups pushed by one parse run are pairwise distinct.
C2_GroupIdsDistinct ==
    \A i, j \in DOMAIN groups : i # j => groups[i].id # groups[j].id

\* C11: every session of every group pushed by a parse run has
\* durationMinutes > 0, whatever rowspan attributes the cells carry and after
\* merging.
C11_DurationPositive ==
    \A g \in DOMAIN groups :
        \A k \in DOMAIN groups[g].events : groups[g].events[k].durationMinutes > 0

\* The sessions the table emitted for one subgroup identifier, in emission order.
OwnSessions(id) ==
    LET buckets == SelectSeq(subgroupEvents, LAMBDA b : b.subgroup = id)
    IN  IF Len(buckets) = 1 THEN buckets[1].events ELSE <<>>

\* C12: the step that ends a table appends to the groups, and leaves the
\* earlier ones alone: when the table emitted detail entries, exactly one group
\* per distinct subgroup identifier, with id the identifier, label
\* "{id} ({mainGroup})", parentGroup the main group and events the merge of the
\* shared sessions followed by that subgroup's own; otherwise exactly one
\* group with id = label = parentGroup = mainGroup and events the merge of the
\* shared sessions.
C12_Assembly ==
    [][(gPhase = "rows" /\ gPhase' = "assembled") =>
        LET ids   == {subgroupEvents[i].subgroup : i \in DOMAIN subgroupEvents}
            added == SubSeq(groups', Len(groups) + 1, Len(groups'))
        IN  /\ Len(groups') >= Len(groups)
            /\ SubSeq(groups', 1, Len(groups)) = groups
            /\ IF ids # {}
               THEN /\ Len(added) = Cardinality(ids)
                    /\ \A id \in ids :
                          \E k \in DOMAIN added :
                              /\ added[k].id = id
                              /\ added[k].label = <<id, " (", mainGroup, ")">>
                              /\ added[k].parentGroup = mainGroup
                              /\ added[k].events =
                                    mergeContiguousEvents(sharedEvents \o OwnSessions(id))
               ELSE added = << [id |-> mainGroup, label |-> <<mainGroup>>,
                                parentGroup |-> mainGroup,
                                events |-> mergeContiguousEvents(sharedEvents)] >>
      ]_vars

\* A table with a shared session and a detail cell naming G1 and G2 was
\* assembled into the two groups, each holding the shared session too.
C12_Witness ==
    /\ gPhase = "assembled"
    /\ Len(sharedEvents) = 1
    /\ Len(subgroupEvents) = 2
    /\ Len(groups) = 2
    /\ groups[1].id = "G1" /\ groups[2].id = "G2"
    /\ groups[2].label = <<"G2", " (", "Y1.S1.WE.IT", ")">>
    /\ Len(groups[1].events) = 2 /\ Len(groups[2].events) = 2

\* C13: no table content makes the parse run abort: the run is never ended by
\* an exception, and the only non-zero exit is the usage error.
C13_NoAbort ==
    /\ gPhase # "crashed"
    /\ exitCode = 1 => gPhase = "usage"

\* The lecturers texts the detail tables of the documents carry (third row).
DetailLecturers == {"", "Dr Y", "Dr Z"}

\* C17: the description of every session emitted for a detail entry is the
\* entry's lecturers, a line feed, "Group " and the subgroup, also when the
\* lecturers text is empty (the description then starts with the line feed).
C17_Description ==
    \A i \in DOMAIN subgroupEvents :
        \A k \in DOMAIN subgroupEvents[i].events :
            \E lecturers \in DetailLecturers :
                subgroupEvents[i].events[k].description =
                    Txt(lecturers) \o <<"\n", "Group ", subgroupEvents[i].subgroup>>

\* The day columns no earlier cell covers, left to right.
Uncovered == SelectSeq([d \in 1..Len(days) |-> d], LAMBDA d : activeSpans[d] = 0)

\* The sessions a step appended to the shared bucket.
AddedShared == SubSeq(sharedEvents', Len(sharedEvents) + 1, Len(sharedEvents'))

\* C18: when a row with a time header has fewer day cells than uncovered day
\* columns, the walk of the row raises no error; the j-th cell present goes to
\* the j-th uncovered column from the left (its session, if it has text,
\* carries that column's day and the row's time); every uncovered column left
\* without a cell gets no session and its ledger entry stays 0; the covered
\* columns are counted down by one.
C18_RaggedRow ==
    [][\A cells \in SeqsUpTo(CellsOf(profile), Len(DaysOf(profile))) :
          (ProcessRow(TRUE, cells) /\ Len(cells) < Len(Uncovered)) =>
             LET withText == SelectSeq([j \in 1..Len(cells) |-> j],
                                       LAMBDA j : toTextLines(cells[j]) # <<>>)
             IN  /\ gPhase' = "rows"
                 /\ Len(AddedShared) = Len(withText)
                 /\ \A k \in DOMAIN withText :
                       /\ AddedShared[k].day = days[Uncovered[withText[k]]]
                       /\ AddedShared[k].start = Time(8 + rowsSeen + 1, 0)
                       /\ AddedShared[k].durationMinutes = RowSpanOf(cells[withText[k]]) * 60
                 /\ \A j \in DOMAIN Uncovered :
                       j > Len(cells) =>
                          /\ activeSpans'[Uncovered[j]] = 0
                          /\ \A k \in DOMAIN AddedShared : AddedShared[k].day # days[Uncovered[j]]
                 /\ \A d \in DOMAIN days :
                       activeSpans[d] > 0 => activeSpans'[d] = activeSpans[d] - 1
      ]_vars

\* A first row with one cell for two day columns was walked: Monday got the
\* session, Tuesday nothing.
C18_Witness ==
    /\ profile = "grid" /\ gPhase = "rows"
    /\ rowsSeen = 1 /\ cellsUsed = 1
    /\ Len(sharedEvents) = 1 /\ sharedEvents[1].day = "Monday"
    /\ activeSpans = <<0, 0>>

\* The run has ended: the process exited.
Ended == exitCode # -1

\* C19: a run without the input path ends with a non-zero status (after the
\* usage message) and writes nothing; a run with the input path that has ended
\* has written the output exactly once, all the groups of the processed tables
\* and no others, and printed their number.
C19_EntryPoint ==
    /\ gPhase = "usage" => (exitCode # 0 /\ exitCode # -1 /\ output = NoOutput)
    /\ output.written => (gPhase = "written" /\ output.groups = groups
                            /\ output.printed = Len(output.groups))
    /\ (Ended /\ gPhase # "usage") => output.written

\* Every session a table has emitted so far, shared and per subgroup.
AllEmitted(shared, subs) == shared \o Flatten([i \in DOMAIN subs |-> subs[i].events])

\* The index of the physical cell column d consumes: one more than the number
\* of uncovered columns to its left.
CellFor(d) == 1 + Cardinality({c \in 1..(d - 1) : activeSpans[c] = 0})

\* The number of sessions a cell yields: one per detail column, one for a cell
\* with text, none for a blank or placeholder cell.
Yield(cell) ==
    IF cell.hasDetail THEN (IF cell.detail = <<>> THEN 0 ELSE Len(cell.detail[1]))
    ELSE IF toTextLines(cell) # <<>> THEN 1 ELSE 0

\* C20: walking a row with a time header, for every day column: a column with
\* activeSpans[day] > 0 is counted down by one, consumes no cell and emits
\* nothing; any other column consumes the next physical cell, its entry
\* becomes rowSpan - 1 when rowSpan > 1 (else stays 0), and what the cell
\* yields is emitted with the column's day, the row's start time and
\* durationMinutes = rowSpan * 60.  So a cell spanning r rows silences its
\* column for the next r - 1 rows, whose cells go to the other columns.
C20_Ledger ==
    [][\A cells \in SeqsUpTo(CellsOf(profile), Len(DaysOf(profile))) :
          (ProcessRow(TRUE, cells) /\ gPhase' = "rows") =>
             \A d \in DOMAIN days :
                LET rowTime == Time(8 + rowsSeen + 1, 0)
                    emitted == SelectSeq(AllEmitted(sharedEvents', subgroupEvents'),
                                         LAMBDA e : e.day = days[d] /\ e.start = rowTime)
                    ci      == CellFor(d)
                IN  IF activeSpans[d] > 0
                    THEN /\ activeSpans'[d] = activeSpans[d] - 1
                         /\ emitted = <<>>
                    ELSE IF ci > Len(cells)
                    THEN /\ activeSpans'[d] = 0
                         /\ emitted = <<>>
                    ELSE LET rowSpan == IF cells[ci].rowspan = NoAttr THEN 1 ELSE cells[ci].rowspan
                         IN  /\ activeSpans'[d] = (IF rowSpan > 1 THEN rowSpan - 1 ELSE 0)
                             /\ Len(emitted) = Yield(cells[ci])
                             /\ \A k \in DOMAIN emitted :
                                   emitted[k].durationMinutes = rowSpan * 60
      ]_vars

\* Monday's first cell spanned two rows; the second row's only cell went to
\* Tuesday and Monday emitted nothing in that row.
C20_Witness ==
    /\ profile = "grid" /\ gPhase = "rows"
    /\ rowsSeen = 2 /\ cellsUsed = 2
    /\ Len(sharedEvents) = 2
    /\ sharedEvents[1].day = "Monday" /\ sharedEvents[1].start = Time(9, 0)
    /\ sharedEvents[1].durationMinutes = 120
    /\ sharedEvents[2].day = "Tuesday" /\ sharedEvents[2].start = Time(10, 0)
    /\ activeSpans = <<0, 0>>

\* C23: a consumed day cell with no nested detail table and no line left after
\* the blank and placeholder lines are dropped emits no session, and its row
\* span is recorded all the same: the column's ledger entry becomes
\* rowSpan - 1 when rowSpan > 1, and a column with a positive entry emits
\* nothing in the row that counts it down.
C23_EmptySharedCell ==
    [][\A cells \in SeqsUpTo(CellsOf(profile), Len(DaysOf(profile))) :
          (ProcessRow(TRUE, cells) /\ gPhase' = "rows") =>
             \A d \in DOMAIN days :
                LET emitted == SelectSeq(AllEmitted(sharedEvents', subgroupEvents'),
                                 LAMBDA e : e.day = days[d] /\ e.start = Time(8 + rowsSeen + 1, 0))
                    ci      == CellFor(d)
                IN  /\ activeSpans[d] > 0 => emitted = <<>>
                    /\ (/\ activeSpans[d] = 0
                        /\ ci <= Len(cells)
                        /\ ~cells[ci].hasDetail
                        /\ \A n \in DOMAIN cells[ci].lines :
                               cells[ci].lines[n] \in {"", "-x-", "---"}) =>
                          /\ emitted = <<>>
                          /\ RowSpanOf(cells[ci]) > 1 =>
                                activeSpans'[d] = RowSpanOf(cells[ci]) - 1
      ]_vars

\* A first row whose Monday cell is a placeholder spanning several rows was
\* walked: no session, and Monday is covered for the next row.
C23_Witness ==
    /\ profile = "grid" /\ gPhase = "rows"
    /\ rowsSeen = 1 /\ cellsUsed = 1
    /\ sharedEvents = <<>>
    /\ activeSpans[1] > 0 /\ activeSpans[2] = 0

\* C26: the merge calls that end a table leave the sessions passed to them as
\* they were, in order and in durationMinutes: the shared and the subgroup
\* buckets are unchanged by the step, and every subgroup's group holds the
\* merge of the same shared sessions (those the table emitted) with its own,
\* whatever its place in the order of assembly.
C26_InputUnchanged ==
    [][(gPhase = "rows" /\ gPhase' = "assembled") =>
        LET added == SubSeq(groups', Len(groups) + 1, Len(groups'))
        IN  /\ sharedEvents' = sharedEvents
            /\ subgroupEvents' = subgroupEvents
            /\ Len(subgroupEvents) > 0 =>
                  /\ Len(added) = Len(subgroupEvents)
                  /\ \A i \in DOMAIN added :
                        added[i].events =
                          MergeWalk(<<>>, sortEvents(sharedEvents \o subgroupEvents[i].events))
      ]_vars

\* A table with two contiguous shared hours and two subgroups was assembled:
\* both groups hold the shared session of 120 minutes, and the shared bucket
\* still holds the two hours.
C26_Witness ==
    /\ gPhase = "assembled"
    /\ Len(sharedEvents) = 2
    /\ sharedEvents[1].durationMinutes = 60 /\ sharedEvents[2].durationMinutes = 60
    /\ Len(groups) = 2
    /\ groups[1].id = "G1" /\ groups[2].id = "G2"
    /\ groups[1].events[1].durationMinutes = 120
    /\ groups[2].events[1].durationMinutes = 120

\* C27: the walk of a body row without a time header emits no session and
\* leaves the ledger entry of every day column as it was, so a spanning
\* cell's rows are counted over the rows with a time header only.
C27_HeaderlessRow ==
    [][ProcessRow(FALSE, <<>>) =>
          /\ activeSpans' = activeSpans
          /\ sharedEvents' = sharedEvents
          /\ subgroupEvents' = subgroupEvents
          /\ gPhase' = "rows"
      ]_vars

\* A Monday cell of the first row spans two rows and the second row has no
\* time header: Monday is still covered for the row after it.
C27_Witness ==
    /\ profile = "grid" /\ gPhase = "rows"
    /\ rowsSeen = 2 /\ cellsUsed = 1
    /\ Len(sharedEvents) = 1
    /\ sharedEvents[1].start = Time(9, 0) /\ sharedEvents[1].durationMinutes = 120
    /\ activeSpans = <<1, 0>>

(***************************************************************************)
(* Claims about parseDetailedTable (SpecDetail)                            *)
(***************************************************************************)
\* The k-th cell of row r (counted from 1), or the default when the row or
\* the cell is absent or the cell is empty.
CellOr(r, k, default) ==
    IF r <= Len(detRows) /\ k <= Len(detRows[r]) /\ detRows[r][k] # ""
    THEN detRows[r][k] ELSE default

\* C22: parseDetailedTable returns as many entries as the first row has cells,
\* the k-th taking subgroup, title, lecturers and location from the k-th cell
\* of the first, second, third and fourth row, or "Unknown", "Session", "" and
\* "" when that cell is absent or empty; a table with no rows gives no entries.
C22_Transposition ==
    (detPhase = "parsed" /\ ~detOut.threw) =>
        IF detRows = <<>> THEN detOut.entries = <<>>
        ELSE /\ Len(detOut.entries) = Len(detRows[1])
             /\ \A k \in DOMAIN detOut.entries :
                   detOut.entries[k] = [subgroup  |-> CellOr(1, k, "Unknown"),
                                        title     |-> CellOr(2, k, "Session"),
                                        lecturers |-> CellOr(3, k, ""),
                                        location  |-> CellOr(4, k, "")]

(***************************************************************************)
(* Claims about handleDownload and buildIcs (SpecIcs)                      *)
(***************************************************************************)
LinesNamed(name) == SelectSeq(download.lines, LAMBDA l : l.name = name)

\* The local date-time a YYYYMMDDTHHMMSS text denotes.
ParseLocal(chars) ==
    [dn  |-> DaysFromCivil(NumberOf(SubSeq(chars, 1, 4)), NumberOf(SubSeq(chars, 5, 6)),
                           NumberOf(SubSeq(chars, 7, 8))),
     sec |-> NumberOf(SubSeq(chars, 10, 11)) * 3600 + NumberOf(SubSeq(chars, 12, 13)) * 60
               + NumberOf(SubSeq(chars, 14, 15))]

Instant(date) == date.dn * 86400 + date.sec

\* The UNTIL value of the i-th VEVENT.
UntilText(i) == Tail(LinesNamed("RRULE")[i].value)

Jan19 == DaysFromCivil(2026, 1, 19)
May30 == DaysFromCivil(2026, 5, 30)

\* C6: a download asked for a group with the start date later than the end
\* date raises the "Invalid date range" alert, hands over no calendar text and
\* has made no date computation (no parse, no UNTIL, no first-occurrence scan).
C6_InvalidRangeRejected ==
    (called /\ selectedGroup.found /\ startDate.dn > endDate.dn) =>
        /\ alertShown = "Invalid date range"
        /\ download = NoDownload
        /\ dateCalls = <<>>

\* The spec's example: start 2026-05-30, end 2026-01-19, a group with a session.
C6_Witness ==
    /\ called
    /\ selectedGroup.found /\ Len(selectedGroup.events) > 0
    /\ startDate.dn = May30 /\ endDate.dn = Jan19
    /\ alertShown = "Invalid date range"

\* C7 as stated: for range end 2026-05-30 every RRULE line carries
\* UNTIL=20260530T235900.
C7_UntilAsStated ==
    (download.happened /\ endDate.dn = May30) =>
        \A i \in DOMAIN selectedGroup.events :
            UntilText(i) = <<"2", "0", "2", "6", "0", "5", "3", "0", "T",
                             "2", "3", "5", "9", "0", "0">>

\* C7 amended: every VEVENT has one RRULE line, whose value is
\* FREQ=WEEKLY;UNTIL= followed by the end date as YYYYMMDD and T235959,
\* whatever the start date, the session and the weekday of the end date; for
\* range end 2026-05-30 it is 20260530T235959.
C7_Until ==
    download.happened =>
        LET c == CivilFromDays(endDate.dn)
        IN  /\ Len(LinesNamed("RRULE")) = Len(selectedGroup.events)
            /\ \A i \in DOMAIN selectedGroup.events :
                  /\ Head(LinesNamed("RRULE")[i].value) = "FREQ=WEEKLY;UNTIL="
                  /\ UntilText(i) = ToDecimal(c.year) \o pad(c.month) \o pad(c.day)
                                      \o <<"T", "2", "3", "5", "9", "5", "9">>
                  /\ endDate.dn = May30 =>
                        UntilText(i) = <<"2", "0", "2", "6", "0", "5", "3", "0", "T",
                                         "2", "3", "5", "9", "5", "9">>

\* A session was encoded for the range end 2026-05-30 (a Saturday).
C7_Witness ==
    /\ download.happened
    /\ endDate.dn = May30
    /\ Len(selectedGroup.events) > 0
    /\ UntilText(1) = <<"2", "0", "2", "6", "0", "5", "3", "0", "T",
                        "2", "3", "5", "9", "5", "9">>

\* The weekly series of the i-th VEVENT has an occurrence on the range end date.
OccursOnEndDate(i) ==
    LET first == ParseLocal(LinesNamed("DTSTART")[i].value)
    IN  first.dn <= endDate.dn /\ (endDate.dn - first.dn) % 7 = 0

\* C8: UNTIL is 23:59:59 on the range end date, and an occurrence of a session
\* that falls on the range end date starts no later than UNTIL.
C8_BoundaryIncluded ==
    download.happened =>
        \A i \in DOMAIN selectedGroup.events :
            LET until == ParseLocal(UntilText(i))
                first == ParseLocal(LinesNamed("DTSTART")[i].value)
            IN  /\ until = [dn |-> endDate.dn, sec |-> 23 * 3600 + 59 * 60 + 59]
                /\ OccursOnEndDate(i) =>
                      Instant([dn |-> endDate.dn, sec |-> first.sec]) <= Instant(until)

\* A session starting at 23:59 has an occurrence on the range end date.
C8_Witness ==
    /\ download.happened
    /\ Len(selectedGroup.events) > 0
    /\ selectedGroup.events[1].start = Time(23, 59)
    /\ OccursOnEndDate(1)
    /\ ParseLocal(LinesNamed("DTSTART")[1].value).dn < endDate.dn

\* The calendar's day numbering, Sunday = 0 .. Saturday = 6.
CalendarDays == <<"Sunday", "Monday", "Tuesday", "Wednesday", "Thursday", "Friday", "Saturday">>
Weekday(dn) == (dn + 4) % 7

\* C9: for a session with a recognized weekday name the first occurrence is
\* the earliest date on or after the range start with that weekday, at most 6
\* days after it; the scan's body runs at most 6 times (7 tests); DTSTART is
\* that date at the session's HH:MM:00 and DTEND is DTSTART plus
\* durationMinutes.  Start 2026-01-19, Wednesday 14:00 for 90 minutes gives
\* 20260121T140000 to 20260121T153000.
C9_FirstOccurrence ==
    download.happened =>
        \A i \in DOMAIN selectedGroup.events :
            LET e       == selectedGroup.events[i]
                dtstart == ParseLocal(LinesNamed("DTSTART")[i].value)
                dtend   == ParseLocal(LinesNamed("DTEND")[i].value)
            IN  (\E w \in DOMAIN CalendarDays : CalendarDays[w] = e.day) =>
                  /\ startDate.dn <= dtstart.dn /\ dtstart.dn <= startDate.dn + 6
                  /\ CalendarDays[Weekday(dtstart.dn) + 1] = e.day
                  /\ \A d \in startDate.dn..(dtstart.dn - 1) : CalendarDays[Weekday(d) + 1] # e.day
                  /\ download.steps[i] = dtstart.dn - startDate.dn
                  /\ download.steps[i] + 1 <= 7
                  /\ dtstart.sec = e.start.h * 3600 + e.start.m * 60
                  /\ Instant(dtend) = Instant(dtstart) + e.durationMinutes * 60
                  /\ (startDate.dn = Jan19 /\ e.day = "Wednesday" /\ e.start = Time(14, 0)
                        /\ e.durationMinutes = 90) =>
                        /\ LinesNamed("DTSTART")[i].value =
                             <<"2", "0", "2", "6", "0", "1", "2", "1", "T",
                               "1", "4", "0", "0", "0", "0">>
                        /\ LinesNamed("DTEND")[i].value =
                             <<"2", "0", "2", "6", "0", "1", "2", "1", "T",
                               "1", "5", "3", "0", "0", "0">>

\* The spec's example was encoded.
C9_Witness ==
    /\ download.happened
    /\ startDate.dn = Jan19
    /\ Len(selectedGroup.events) = 1
    /\ selectedGroup.events[1].day = "Wednesday"
    /\ selectedGroup.events[1].start = Time(14, 0)
    /\ selectedGroup.events[1].durationMinutes = 90
    /\ download.steps = <<2>>

\* C15: the UID lines of one export, one per session, are pairwise distinct,
\* also for sessions with the same day and start time, and the i-th (counted
\* from 0) is {groupId}-{day}-{HH:MM}-{i}@unischedule.
C15_UidUnique ==
    download.happened =>
        LET uids == LinesNamed("UID")
        IN  /\ Len(uids) = Len(selectedGroup.events)
            /\ \A i, j \in DOMAIN uids : i # j => uids[i].value # uids[j].value
            /\ \A i \in DOMAIN uids :
                  LET e == selectedGroup.events[i]
                  IN  uids[i].value =
                        <<selectedGroup.id, "-", e.day, "-">> \o pad(e.start.h) \o <<":">>
                          \o pad(e.start.m) \o <<"-">> \o ToDecimal(i - 1) \o <<"@unischedule">>

\* A group with two sessions of the same day and start time was exported.
C15_Witness ==
    /\ download.happened
    /\ Len(selectedGroup.events) = 2
    /\ selectedGroup.events[1] = selectedGroup.events[2]
    /\ LinesNamed("UID")[1].value # LinesNamed("UID")[2].value

\* The BEGIN and END lines of the export, in order.
Frame == SelectSeq(download.lines, LAMBDA l : l.name \in {"BEGIN", "END"})

ExpectedFrame(n) ==
    <<Line("BEGIN", <<"VCALENDAR">>)>>
      \o Flatten([k \in 1..n |-> <<Line("BEGIN", <<"VEVENT">>), Line("END", <<"VEVENT">>)>>])
      \o <<Line("END", <<"VCALENDAR">>)>>

Pieces(text, piece) == {k \in DOMAIN text : text[k] = piece}

\* C16: the export of a group with n sessions starts with BEGIN:VCALENDAR,
\* holds exactly n BEGIN:VEVENT .. END:VEVENT blocks, the k-th one being the
\* k-th session's, then END:VCALENDAR; the lines are separated by CRLF, never
\* by a bare line feed, and the text ends with END:VCALENDAR and a CRLF; with
\* n = 0 there is no VEVENT block.
C16_DocumentShape ==
    download.happened =>
        LET n    == Len(selectedGroup.events)
            text == download.text
            len  == Len(text)
        IN  /\ download.lines[1] = Line("BEGIN", <<"VCALENDAR">>)
            /\ Frame = ExpectedFrame(n)
            /\ n = 0 => \A k \in DOMAIN download.lines : download.lines[k].value # <<"VEVENT">>
            /\ Len(LinesNamed("SUMMARY")) = n
            /\ \A k \in 1..n :
                  /\ LinesNamed("SUMMARY")[k].value = escapeIcsText(selectedGroup.events[k].title)
                  /\ LinesNamed("UID")[k].value = Uid(selectedGroup, selectedGroup.events[k], k - 1)
            /\ SubSeq(text, 1, 4) = <<"BEGIN", ":", "VCALENDAR", CRLF>>
            /\ SubSeq(text, len - 3, len) = <<"END", ":", "VCALENDAR", CRLF>>
            /\ Cardinality(Pieces(text, CRLF)) = Len(download.lines) - 1
            /\ Pieces(text, "\n") = {}
            /\ \A k \in Pieces(text, CRLF) : k > 1 /\ text[k - 1] # CRLF

\* A group with two sessions was exported.
C16_Witness ==
    /\ download.happened
    /\ Len(selectedGroup.events) = 2
    /\ Len(Frame) = 6
    /\ download.text[Len(download.text)] = CRLF

\* The positions of a line in the export.
PositionsOf(line) ==
    SelectSeq([i \in 1..Len(download.lines) |-> i], LAMBDA i : download.lines[i] = line)

\* The names of the lines of the k-th VEVENT block, BEGIN and END included.
BlockNames(k) ==
    LET from == PositionsOf(Line("BEGIN", <<"VEVENT">>))[k]
        to   == PositionsOf(Line("END", <<"VEVENT">>))[k]
    IN  [j \in 1..(to - from + 1) |-> download.lines[from + j - 1].name]

\* C24: every VEVENT block holds UID, DTSTAMP, SUMMARY, DTSTART, DTEND and
\* RRULE in that order, then a LOCATION line exactly when the session's
\* location is non-empty and a DESCRIPTION line exactly when its description
\* is non-empty, and nothing else.
C24_OptionalLines ==
    download.happened =>
        \A k \in DOMAIN selectedGroup.events :
            LET e == selectedGroup.events[k]
            IN  BlockNames(k) =
                  <<"BEGIN", "UID", "DTSTAMP", "SUMMARY", "DTSTART", "DTEND", "RRULE">>
                    \o (IF Len(e.location) > 0 THEN <<"LOCATION">> ELSE <<>>)
                    \o (IF Len(e.description) > 0 THEN <<"DESCRIPTION">> ELSE <<>>)
                    \o <<"END">>

\* A session with a location and no description was exported.
C24_Witness ==
    /\ download.happened
    /\ Len(selectedGroup.events) = 1
    /\ Len(selectedGroup.events[1].location) > 0
    /\ selectedGroup.events[1].description = <<>>
    /\ Len(LinesNamed("LOCATION")) = 1
    /\ LinesNamed("DESCRIPTION") = <<>>

\* C28: in every export (the range start is not after the range end), the
\* DTSTART of each VEVENT is not later than the UNTIL of its RRULE.
C28_StartWithinRange ==
    download.happened =>
        \A i \in DOMAIN selectedGroup.events :
            Instant(ParseLocal(LinesNamed("DTSTART")[i].value))
                <= Instant(ParseLocal(UntilText(i)))

(***************************************************************************)
(* Claims about repeated buildIcs calls (SpecEncode)                       *)
(***************************************************************************)
SameButStamps(a, b) ==
    /\ Len(a) = Len(b)
    /\ \A k \in DOMAIN a :
          a[k] = b[k] \/ (a[k].name = "DTSTAMP" /\ b[k].name = "DTSTAMP")

SameArguments(c, d) ==
    c.group = d.group /\ c.startText = d.startText /\ c.endText = d.endText

\* C14: any two buildIcs calls of one session with the same group and the
\* same start and end dates, whatever calls were made between them and
\* whatever the clock read, returned texts equal on every line that is not a
\* DTSTAMP line; and the groups are as they were before the first call.
C14_EncodeDeterminism ==
    /\ timetable = EncTimetable
    /\ \A i, j \in DOMAIN encodes :
          SameArguments(encodes[i], encodes[j]) =>
              SameButStamps(encodes[i].lines, encodes[j].lines)

\* The same export was made twice at different clock readings, with an export
\* of another group in between.
C14_Witness ==
    /\ Len(encodes) = 3
    /\ SameArguments(encodes[1], encodes[3])
    /\ encodes[2].group # encodes[1].group
    /\ encodes[1].lines # encodes[3].lines
    /\ Len(timetable[encodes[1].group].events) = 2

(***************************************************************************)
(* Claims about escapeIcsText (SpecEscape)                                 *)
(***************************************************************************)
\* The reverse of the four rules, read left to right: a backslash and the
\* character after it stand for one character.
RECURSIVE Unescape(_)
Unescape(t) ==
    IF t = <<>> THEN <<>>
    ELSE IF Head(t) = BS /\ Len(t) >= 2
         THEN (IF t[2] = "n" THEN <<NL>> ELSE <<t[2]>>) \o Unescape(SubSeq(t, 3, Len(t)))
         ELSE <<Head(t)>> \o Unescape(Tail(t))

Special(s) == {i \in DOMAIN s : s[i] \in {BS, ";", ",", NL}}

\* C10: reversing the four substitution rules on escapeIcsText(s) gives s
\* back, and every backslash, semicolon, comma and newline of s is escaped
\* exactly once (the result is longer than s by their number).
C10_EscapeRoundTrip ==
    escPhase = "escaped" =>
        /\ Unescape(escOut) = escIn
        /\ Len(escOut) = Len(escIn) + Cardinality(Special(escIn))

\* A text holding a comma, a semicolon, a backslash and a line break was escaped.
C10_Witness ==
    /\ escPhase = "escaped"
    /\ escIn = <<",", ";", BS, NL>>
    /\ escOut = <<BS, ",", BS, ";", BS, BS, BS, "n">>

(***************************************************************************)
(* Claims about the group filters (SpecUi)                                 *)
(***************************************************************************)
\* What a non-empty option list offers, read off the groups directly.
YearOffered ==
    \E i \in DOMAIN uiGroups : parseGroupMeta(uiGroups[i]).yearKey = yearKey
ModeOffered ==
    \E i \in DOMAIN uiGroups :
        /\ parseGroupMeta(uiGroups[i]).yearKey = yearKey
        /\ parseGroupMeta(uiGroups[i]).mode = mode
SpecializationOffered ==
    \E i \in DOMAIN uiGroups :
        /\ parseGroupMeta(uiGroups[i]).yearKey = yearKey
        /\ parseGroupMeta(uiGroups[i]).mode = mode
        /\ parseGroupMeta(uiGroups[i]).specialization = specialization
IdOffered ==
    \E i \in DOMAIN uiGroups :
        /\ parseGroupMeta(uiGroups[i]).yearKey = yearKey
        /\ parseGroupMeta(uiGroups[i]).mode = mode
        /\ parseGroupMeta(uiGroups[i]).specialization = specialization
        /\ uiGroups[i].id = selectedId

\* The year list is non-empty when there is a group, the mode list when the
\* year is offered, the specialization list when the mode is, the group
\* list when the specialization is.
FiltersValid ==
    /\ uiGroups # <<>> => YearOffered
    /\ YearOffered => ModeOffered
    /\ ModeOffered => SpecializationOffered
    /\ SpecializationOffered => IdOffered

\* C29: after any selections, once the four correcting effects have nothing
\* left to update, yearKey, mode, specialization and selectedId are each an
\* element of their option list whenever that list is non-empty, and from
\* every state in which an effect has an update to make such a settled state
\* is reached.
C29_CascadeSettles == [](Settled => FiltersValid) /\ (~Settled ~> Settled)

\* With every group loaded and the first year shown at the start, the
\* filters rest on the second year's weekday IT group: the year was picked,
\* and the effects replaced the mode, the specialization and the group.
C29_Witness ==
    /\ uiGroups = UiUniverse
    /\ Settled
    /\ yearKey = <<"Y2", ".", "S1">>
    /\ mode = "WD"
    /\ specialization = "IT"
    /\ selectedId = "Y2.S1.WD.IT"

\* groups.find((group) => group.id === selectedId): the group that is
\* previewed and that handleDownload passes to buildIcs.
ExportedGroup == FindGroup(uiGroups, selectedId)

\* C30: in every settled state whose group list is not empty, the group that
\* is previewed and exported is one of the groups of that list.
C30_ExportedGroupListed ==
    LET options == groupOptions(uiGroups, yearKey, mode, specialization)
    IN  Settled /\ options # <<>> =>
            \E i \in DOMAIN options : options[i] = ExportedGroup


=============================================================================
